---- MODULE Spec2Model ----
(***************************************************************************)
(* Aurie framework entry point (source/AurieMain.cpp): DllMain, the attach *)
(* worker ArProcessAttach and the unload routine ArProcessDetach, together *)
(* with the module registry g_LdrModuleList they drive.                    *)
(*                                                                         *)
(* The framework routines that AurieMain.cpp calls (MdpDispatchEntry,      *)
(* MdpPurgeMarkedModules, MdpUnmapImage, MmpFreeMemory, MdpMapFolder, ...) *)
(* live in framework/ and are modelled from their documented contracts.    *)
(***************************************************************************)
EXTENDS Integers, Sequences, FiniteSets, TLC

\* Number of mod images the loader can accept from <host-dir>/mods/aurie.
NumMods == 2
\* Number of memory allocations the hooks may make over one run.
MaxAllocs == 2

Mods == 1..NumMods
Allocs == 1..MaxAllocs

\* Identity of the record created for the host's main executable.
HostImage == 0
\* Value of g_ArInitialImage while it points at no record (nullptr).
NullImage == 0 - 1
ModuleIds == Mods \cup {HostImage}

\* winnt.h subsystem values; 0 is the value the local starts with.
IMAGE_SUBSYSTEM_UNKNOWN == 0
IMAGE_SUBSYSTEM_WINDOWS_GUI == 2
IMAGE_SUBSYSTEM_WINDOWS_CUI == 3

Stages == {"Preinitialize", "Initialize", "Unload"}

VARIABLES
    pc,                 \* position of the thread that runs ArProcessAttach
    g_LdrModuleList,    \* Internal::g_LdrModuleList, the registry
    g_ArInitialImage,   \* g_ArInitialImage, id of the record it points to
    it,                 \* iterator of the range-for loop being executed
    mapped,             \* mod images currently mapped into the host
    heap,               \* allocations that have not been freed
    nextAlloc,          \* next allocation base to hand out
    hookCalls,          \* per stage and module: times the hook was invoked
    dispatched,         \* per stage: ids MdpDispatchEntry was called on
    hookFailed,         \* per stage: ids whose hook returned failure
    msgCount,           \* number of MessageBoxA calls
    host,               \* the host process as the waits observe it
    current_process_subsystem,  \* local of ArProcessAttach (line 156)
    gate,               \* what ElIsProcessSuspended gave, and which of
                        \* resume / window wait / idle wait happened
    terminated          \* DllMain saw DLL_PROCESS_DETACH with lpvReserved set

vars == <<pc, g_LdrModuleList, g_ArInitialImage, it, mapped, heap, nextAlloc,
          hookCalls, dispatched, hookFailed, msgCount, host,
          current_process_subsystem, gate, terminated>>

registryVars == <<g_LdrModuleList, g_ArInitialImage, it, mapped, heap, nextAlloc>>
historyVars == <<hookCalls, dispatched, hookFailed>>
gateVars == <<host, current_process_subsystem, gate>>

----------------------------------------------------------------------------
\* Helpers over the registry.

\* AurieModule as MdpCreateModule leaves it: no flag set, nothing allocated.
NewModule(id) ==
    [id |-> id, IsPreloaded |-> FALSE, IsInitialized |-> FALSE,
     MarkedForPurge |-> FALSE, MemoryAllocations |-> {}]

ListIds(list) == [i \in 1..Len(list) |-> list[i].id]

IdSet(list) == {list[i].id : i \in 1..Len(list)}

IndexOf(list, id) == CHOOSE i \in 1..Len(list) : list[i].id = id

\* AurieSuccess(status)
AurieSuccess(status) == status = "AURIE_SUCCESS"

\* MdIsImageInitialized(&entry)
MdIsImageInitialized(entry) == entry.IsInitialized

\* Internal::MdpMarkModuleForPurge(&entry)
MdpMarkModuleForPurge(entry) == [entry EXCEPT !.MarkedForPurge = TRUE]

Init ==
    /\ pc = "not_attached"
    /\ g_LdrModuleList = <<>>
    /\ g_ArInitialImage = NullImage
    /\ it = 0
    /\ mapped = {}
    /\ heap = {}
    /\ nextAlloc = 1
    /\ hookCalls = [s \in Stages |-> [m \in ModuleIds |-> 0]]
    /\ dispatched = [s \in Stages |-> {}]
    /\ hookFailed = [s \in Stages |-> {}]
    /\ msgCount = 0
    /\ host \in [launchedSuspended : BOOLEAN,
                 suspended : BOOLEAN,
                 subsystem : {IMAGE_SUBSYSTEM_WINDOWS_GUI, IMAGE_SUBSYSTEM_WINDOWS_CUI},
                 hasWindow : {FALSE},
                 inputIdle : {FALSE}]
    /\ host.suspended = host.launchedSuspended
    /\ current_process_subsystem = IMAGE_SUBSYSTEM_UNKNOWN
    /\ gate = [suspendQuery |-> "none", resumeCalls |-> 0,
               windowWaitReturned |-> FALSE, idleWaitReturned |-> FALSE]
    /\ terminated = FALSE

----------------------------------------------------------------------------
\* DllMain, DLL_PROCESS_ATTACH: the worker thread is created, or DllMain
\* returns FALSE and the loader unloads the image again.
DllMainAttach ==
    /\ pc = "not_attached"
    /\ ~terminated
    /\ \E created_thread \in BOOLEAN :
          pc' = IF created_thread THEN "query_path" ELSE "attach_failed"
    /\ UNCHANGED <<registryVars, historyVars, gateVars, msgCount, terminated>>

\* return (void)MessageBoxA(...): one blocking message, then the worker returns.
FatalMessage ==
    /\ msgCount' = msgCount + 1
    /\ pc' = "returned"

\* QueryFullProcessImageNameW and its failure branch.
QueryProcessPath ==
    /\ pc = "query_path"
    /\ ~terminated
    /\ \E ok \in BOOLEAN :
          IF ok THEN pc' = "create_module" /\ UNCHANGED msgCount
                ELSE FatalMessage
    /\ UNCHANGED <<registryVars, historyVars, gateVars, terminated>>

\* CreateInitialModule with g_ArInitialImage set but the record never added
\* to the list.
CreateInitialModule_NotAdded ==
    /\ pc = "create_module"
    /\ ~terminated
    /\ \E ok \in BOOLEAN :
          IF ok
          THEN /\ g_ArInitialImage' = HostImage
               /\ pc' = "get_folder"
               /\ UNCHANGED <<msgCount, g_LdrModuleList>>
          ELSE /\ FatalMessage
               /\ UNCHANGED <<g_LdrModuleList, g_ArInitialImage>>
    /\ UNCHANGED <<it, mapped, heap, nextAlloc, historyVars, gateVars, terminated>>

\* MdpCreateModule for the host image, then MdpAddModuleToList, whose result
\* is stored in g_ArInitialImage.
CreateInitialModule ==
    /\ pc = "create_module"
    /\ ~terminated
    /\ \E ok \in BOOLEAN :
          IF ok
          THEN /\ g_LdrModuleList' = Append(g_LdrModuleList, NewModule(HostImage))
               /\ g_ArInitialImage' = HostImage
               /\ pc' = "get_folder"
               /\ UNCHANGED msgCount
          ELSE /\ FatalMessage
               /\ UNCHANGED <<g_LdrModuleList, g_ArInitialImage>>
    /\ UNCHANGED <<it, mapped, heap, nextAlloc, historyVars, gateVars, terminated>>

\* GetImageFolder with the return of the failure branch forgotten.
GetImageFolder_FallThrough ==
    /\ pc = "get_folder"
    /\ ~terminated
    /\ \E ok \in BOOLEAN :
          /\ pc' = "map_folder"
          /\ msgCount' = IF ok THEN msgCount ELSE msgCount + 1
    /\ UNCHANGED <<registryVars, historyVars, gateVars, terminated>>

\* MdpGetImageFolder on the initial image and its failure branch.
GetImageFolder ==
    /\ pc = "get_folder"
    /\ ~terminated
    /\ \E ok \in BOOLEAN :
          IF ok THEN pc' = "map_folder" /\ UNCHANGED msgCount
                ELSE FatalMessage
    /\ UNCHANGED <<registryVars, historyVars, gateVars, terminated>>

\* Internal::MdpMapFolder: the loader accepts some number of the images of
\* the folder, maps each once and appends its record to the registry; a mod
\* is identified by its place in that load order.
MdpMapFolder(list) ==
    {list \o [i \in 1..k |-> NewModule(i)] : k \in 0..NumMods}

\* Load everything from <host-dir>/mods/aurie.
MapModsFolder ==
    /\ pc = "map_folder"
    /\ ~terminated
    /\ \E list \in MdpMapFolder(g_LdrModuleList) :
          /\ g_LdrModuleList' = list
          /\ mapped' = IdSet(list) \ {HostImage}
    /\ it' = 1
    /\ pc' = "preload"
    /\ UNCHANGED <<g_ArInitialImage, heap, nextAlloc, historyVars, gateVars,
                   msgCount, terminated>>

----------------------------------------------------------------------------
\* Lifecycle dispatch.

\* Internal::MdpDispatchEntry(&entry, hook): what one dispatch can yield.
\* A missing export is success without an invocation; the host image
\* exports no hook.  The callers pass every entry they visit, so which
\* flags an entry has when its hook runs is decided by the loops and purges.
MdpDispatchEntry(entry) ==
    IF entry.id = HostImage
    THEN {[invoked |-> FALSE, status |-> "AURIE_SUCCESS"]}
    ELSE {[invoked |-> FALSE, status |-> "AURIE_SUCCESS"],
          [invoked |-> TRUE, status |-> "AURIE_SUCCESS"],
          [invoked |-> TRUE, status |-> "AURIE_MODULE_INITIALIZATION_FAILED"]}

\* What a running hook may ask of the memory tracker: nothing, a block owned
\* by its own module, or a persistent block owned by the initial image.
HookAllocations(r) ==
    IF r.invoked /\ nextAlloc <= MaxAllocs
    THEN {"none", "own", "persistent"}
    ELSE {"none"}

\* The registry after the hook running for entry i made allocation `kind`.
WithAllocation(list, i, kind) ==
    IF kind = "own"
    THEN [list EXCEPT ![i].MemoryAllocations = @ \cup {nextAlloc}]
    ELSE IF kind = "persistent"
    THEN [list EXCEPT ![IndexOf(list, g_ArInitialImage)].MemoryAllocations =
                          @ \cup {nextAlloc}]
    ELSE list

\* Bookkeeping of `calls` dispatches of `stage` on entry, with result r.
RecordDispatch(stage, entry, r, calls, kind) ==
    /\ dispatched' = [dispatched EXCEPT ![stage] = @ \cup {entry.id}]
    /\ hookCalls' = [hookCalls EXCEPT ![stage][entry.id] =
                        @ + (IF r.invoked THEN calls ELSE 0)]
    /\ hookFailed' = [hookFailed EXCEPT ![stage] =
                        IF r.invoked /\ ~AurieSuccess(r.status)
                        THEN @ \cup {entry.id} ELSE @]
    /\ heap' = IF kind = "none" THEN heap ELSE heap \cup {nextAlloc}
    /\ nextAlloc' = IF kind = "none" THEN nextAlloc ELSE nextAlloc + 1

\* PreloadResult with the failure branch lost: every entry counts as preloaded.
PreloadResult_NoMark(entry, status) == [entry EXCEPT !.IsPreloaded = TRUE]

\* Preload loop body after the dispatch: mark the entry for the purge on
\* failure, set IsPreloaded otherwise.
PreloadResult(entry, status) ==
    IF ~AurieSuccess(status)
    THEN MdpMarkModuleForPurge(entry)
    ELSE [entry EXCEPT !.IsPreloaded = TRUE]

\* PreloadList erasing a failed entry inside the loop instead of marking it.
PreloadList_EraseOnFailure(list, i, status) ==
    IF AurieSuccess(status)
    THEN [list EXCEPT ![i] = PreloadResult(list[i], status)]
    ELSE SubSeq(list, 1, i - 1) \o SubSeq(list, i + 1, Len(list))

\* The registry after the preload loop body ran on entry i: flags only.
PreloadList(list, i, status) ==
    [list EXCEPT ![i] = PreloadResult(list[i], status)]

\* PreloadAdvance leaving the loop at the first failure.
PreloadAdvance_AbortOnFailure(i, status) ==
    IF AurieSuccess(status) THEN i + 1 ELSE Len(g_LdrModuleList) + 1

\* The range-for moves to the next entry whatever the status was.
PreloadAdvance(i, status) == i + 1

\* Call ModulePreload on all loaded plugins: one iteration of the loop.
PreloadStep ==
    /\ pc = "preload"
    /\ ~terminated
    /\ it <= Len(g_LdrModuleList)
    /\ \E r \in MdpDispatchEntry(g_LdrModuleList[it]) :
       \E kind \in HookAllocations(r) :
          /\ RecordDispatch("Preinitialize", g_LdrModuleList[it], r, 1, kind)
          /\ g_LdrModuleList' =
                PreloadList(WithAllocation(g_LdrModuleList, it, kind), it, r.status)
          /\ it' = PreloadAdvance(it, r.status)
    /\ UNCHANGED <<pc, g_ArInitialImage, mapped, gateVars, msgCount, terminated>>

\* Purge Mechanism: a record stays unless it is marked, and the initial
\* image's record stays even when marked.
PurgeKeeps(entry) == ~entry.MarkedForPurge \/ entry.id = g_ArInitialImage

PurgedIds(list) == {list[i].id : i \in {j \in 1..Len(list) : ~PurgeKeeps(list[j])}}

PurgedAllocations(list) ==
    UNION {list[i].MemoryAllocations : i \in {j \in 1..Len(list) : ~PurgeKeeps(list[j])}}

\* Internal::MdpPurgeMarkedModules(): unmap the marked records without
\* calling their unload routine, release their allocations, and keep the
\* other records in their order.
MdpPurgeMarkedModules ==
    /\ mapped' = mapped \ PurgedIds(g_LdrModuleList)
    /\ heap' = heap \ PurgedAllocations(g_LdrModuleList)
    /\ g_LdrModuleList' = SelectSeq(g_LdrModuleList, PurgeKeeps)

\* PurgeAfterPreload with the call of MdpPurgeMarkedModules left out.
PurgeAfterPreload_NoPurge ==
    /\ pc = "preload"
    /\ ~terminated
    /\ it > Len(g_LdrModuleList)
    /\ pc' = "query_suspended"
    /\ UNCHANGED <<registryVars, historyVars, gateVars, msgCount, terminated>>

\* Purge all the modules that failed loading (after the preload loop).
PurgeAfterPreload ==
    /\ pc = "preload"
    /\ ~terminated
    /\ it > Len(g_LdrModuleList)
    /\ MdpPurgeMarkedModules
    /\ pc' = "query_suspended"
    /\ UNCHANGED <<g_ArInitialImage, it, nextAlloc, historyVars, gateVars,
                   msgCount, terminated>>

----------------------------------------------------------------------------
\* Process synchronization gate.

\* What ElIsProcessSuspended gave: a failure, or the state of the host.
SuspendQueryResult(query_ok) ==
    IF ~query_ok THEN "failed"
    ELSE IF host.suspended THEN "suspended" ELSE "running"

\* QuerySuspended resuming only when the query failed.
QuerySuspended_OnlyOnFailure ==
    /\ pc = "query_suspended"
    /\ ~terminated
    /\ \E query_ok \in BOOLEAN :
          /\ gate' = [gate EXCEPT !.suspendQuery = SuspendQueryResult(query_ok)]
          /\ pc' = IF ~query_ok THEN "resume" ELSE "query_subsystem"
    /\ UNCHANGED <<registryVars, historyVars, host, current_process_subsystem,
                   msgCount, terminated>>

\* QuerySuspended resuming only when the query succeeded and reported the
\* host suspended: the !AurieSuccess(...) half of the test is missing.
QuerySuspended_IgnoresFailure ==
    /\ pc = "query_suspended"
    /\ ~terminated
    /\ \E query_ok \in BOOLEAN :
          /\ gate' = [gate EXCEPT !.suspendQuery = SuspendQueryResult(query_ok)]
          /\ pc' = IF query_ok /\ host.suspended
                   THEN "resume" ELSE "query_subsystem"
    /\ UNCHANGED <<registryVars, historyVars, host, current_process_subsystem,
                   msgCount, terminated>>

\* ElIsProcessSuspended(is_process_suspended): a failed query, or a host
\* reported suspended, leads to the resume call.
QuerySuspended ==
    /\ pc = "query_suspended"
    /\ ~terminated
    /\ \E query_ok \in BOOLEAN :
          LET is_process_suspended == query_ok /\ host.suspended IN
          /\ gate' = [gate EXCEPT !.suspendQuery = SuspendQueryResult(query_ok)]
          /\ pc' = IF ~query_ok \/ is_process_suspended
                   THEN "resume" ELSE "query_subsystem"
    /\ UNCHANGED <<registryVars, historyVars, host, current_process_subsystem,
                   msgCount, terminated>>

\* Internal::ElpResumeProcess(GetCurrentProcess())
ElpResumeProcess ==
    /\ pc = "resume"
    /\ ~terminated
    /\ host' = [host EXCEPT !.suspended = FALSE]
    /\ gate' = [gate EXCEPT !.resumeCalls = @ + 1]
    /\ pc' = "query_subsystem"
    /\ UNCHANGED <<registryVars, historyVars, current_process_subsystem,
                   msgCount, terminated>>

\* QuerySubsystem with the window wait taken for every subsystem value.
QuerySubsystem_AlwaysWaits ==
    /\ pc = "query_subsystem"
    /\ ~terminated
    /\ \E query_ok \in BOOLEAN :
          current_process_subsystem' =
             IF query_ok THEN host.subsystem ELSE current_process_subsystem
    /\ pc' = "window_wait"
    /\ UNCHANGED <<registryVars, historyVars, host, gate, msgCount, terminated>>

\* PpGetImageSubsystem(GetModuleHandleA(nullptr), current_process_subsystem):
\* the status is not looked at, so a failed query leaves the local at 0.
QuerySubsystem ==
    /\ pc = "query_subsystem"
    /\ ~terminated
    /\ \E query_ok \in BOOLEAN :
          current_process_subsystem' =
             IF query_ok THEN host.subsystem ELSE current_process_subsystem
    /\ pc' = IF current_process_subsystem' = IMAGE_SUBSYSTEM_WINDOWS_GUI
             THEN "window_wait" ELSE "idle_wait"
    /\ UNCHANGED <<registryVars, historyVars, host, gate, msgCount, terminated>>

\* ElWaitForCurrentProcessWindow(): returns once the host owns a window.
ElWaitForCurrentProcessWindow ==
    /\ pc = "window_wait"
    /\ ~terminated
    /\ host.hasWindow
    /\ gate' = [gate EXCEPT !.windowWaitReturned = TRUE]
    /\ pc' = "idle_wait"
    /\ UNCHANGED <<registryVars, historyVars, host, current_process_subsystem,
                   msgCount, terminated>>

\* WaitForInputIdle returning only for a host that owns a window.
WaitForInputIdle_NeedsWindow ==
    /\ pc = "idle_wait"
    /\ ~terminated
    /\ host.hasWindow
    /\ host.inputIdle
    /\ gate' = [gate EXCEPT !.idleWaitReturned = TRUE]
    /\ it' = 1
    /\ pc' = "init"
    /\ UNCHANGED <<g_LdrModuleList, g_ArInitialImage, mapped, heap, nextAlloc,
                   historyVars, host, current_process_subsystem, msgCount,
                   terminated>>

\* WaitForInputIdle(GetCurrentProcess(), INFINITE)
WaitForInputIdle ==
    /\ pc = "idle_wait"
    /\ ~terminated
    /\ host.inputIdle
    /\ gate' = [gate EXCEPT !.idleWaitReturned = TRUE]
    /\ it' = 1
    /\ pc' = "init"
    /\ UNCHANGED <<g_LdrModuleList, g_ArInitialImage, mapped, heap, nextAlloc,
                   historyVars, host, current_process_subsystem, msgCount,
                   terminated>>

\* The host's own startup: a windowed host that runs creates its window.
HostCreatesWindow ==
    /\ ~terminated
    /\ pc \notin {"done", "crashed"}
    /\ ~host.suspended
    /\ host.subsystem = IMAGE_SUBSYSTEM_WINDOWS_GUI
    /\ ~host.hasWindow
    /\ host' = [host EXCEPT !.hasWindow = TRUE]
    /\ UNCHANGED <<pc, registryVars, historyVars, current_process_subsystem,
                   gate, msgCount, terminated>>

\* The host's own startup: a host that runs reaches its input-idle state.
HostBecomesIdle ==
    /\ ~terminated
    /\ pc \notin {"done", "crashed"}
    /\ ~host.suspended
    /\ ~host.inputIdle
    /\ host' = [host EXCEPT !.inputIdle = TRUE]
    /\ UNCHANGED <<pc, registryVars, historyVars, current_process_subsystem,
                   gate, msgCount, terminated>>

----------------------------------------------------------------------------
\* Initialization pass.

\* InitDispatches with the dispatch call repeated in the status test.
InitDispatches_Twice(entry) == IF MdIsImageInitialized(entry) THEN 0 ELSE 2

\* Number of times the init loop body dispatches ModuleInitialize on entry:
\* none for a module that is already initialized (continue), else one.
InitDispatches(entry) == IF MdIsImageInitialized(entry) THEN 0 ELSE 1

\* InitResult with the success branch copied from the preload loop: it
\* sets IsPreloaded again and leaves IsInitialized clear.
InitResult_SetsPreloaded(entry, status) ==
    IF ~AurieSuccess(status)
    THEN MdpMarkModuleForPurge(entry)
    ELSE [entry EXCEPT !.IsPreloaded = TRUE]

\* Init loop body after the dispatch: mark the entry for the purge on
\* failure, set IsInitialized otherwise.
InitResult(entry, status) ==
    IF ~AurieSuccess(status)
    THEN MdpMarkModuleForPurge(entry)
    ELSE [entry EXCEPT !.IsInitialized = TRUE]

\* The registry after the init loop body ran on entry i: flags only.
InitList(list, i, status) ==
    [list EXCEPT ![i] = InitResult(list[i], status)]

\* The range-for moves to the next entry whatever the status was.
InitAdvance(i, status) == i + 1

\* Call ModuleEntry on all loaded plugins: one iteration of the loop.
InitStep ==
    /\ pc = "init"
    /\ ~terminated
    /\ it <= Len(g_LdrModuleList)
    /\ LET entry == g_LdrModuleList[it] IN
       IF InitDispatches(entry) = 0
       THEN /\ it' = it + 1
            /\ UNCHANGED <<g_LdrModuleList, heap, nextAlloc, historyVars>>
       ELSE \E r \in MdpDispatchEntry(entry) :
            \E kind \in HookAllocations(r) :
              /\ RecordDispatch("Initialize", entry, r, InitDispatches(entry), kind)
              /\ g_LdrModuleList' =
                    InitList(WithAllocation(g_LdrModuleList, it, kind), it, r.status)
              /\ it' = InitAdvance(it, r.status)
    /\ UNCHANGED <<pc, g_ArInitialImage, mapped, gateVars, msgCount, terminated>>

\* Purge all the modules that failed loading (after the init loop).
PurgeAfterInit ==
    /\ pc = "init"
    /\ ~terminated
    /\ it > Len(g_LdrModuleList)
    /\ MdpPurgeMarkedModules
    /\ pc' = "end_key"
    /\ UNCHANGED <<g_ArInitialImage, it, nextAlloc, historyVars, gateVars,
                   msgCount, terminated>>

\* while (!GetAsyncKeyState(VK_END)) Sleep(1): left once the key is seen.
WaitForEndKey ==
    /\ pc = "end_key"
    /\ ~terminated
    /\ pc' = "free_library"
    /\ UNCHANGED <<registryVars, historyVars, gateVars, msgCount, terminated>>

----------------------------------------------------------------------------
\* Detach.

\* DllMainDetach without the test of lpvReserved: ArProcessDetach is entered
\* on process termination too.
DllMainDetach_IgnoresReserved(lpvReserved) ==
    /\ ~terminated
    /\ IF lpvReserved
       THEN /\ pc \notin {"not_attached", "done", "crashed"}
            /\ terminated' = TRUE
       ELSE /\ pc \in {"free_library", "attach_failed"}
            /\ UNCHANGED terminated
    /\ pc' = "detach_loop"
    /\ it' = 1
    /\ UNCHANGED <<g_LdrModuleList, g_ArInitialImage, mapped, heap, nextAlloc,
                   historyVars, gateVars, msgCount>>

\* DllMainDetach with the image unloaded while the worker is still at work:
\* the unload notification may arrive at any position of the worker.
DllMainDetach_WhileAttaching(lpvReserved) ==
    /\ ~terminated
    /\ IF lpvReserved
       THEN /\ pc \notin {"not_attached", "done", "crashed"}
            /\ terminated' = TRUE
            /\ UNCHANGED <<pc, it>>
       ELSE /\ pc \notin {"not_attached", "detach_loop", "detach_clear",
                          "done", "crashed"}
            /\ pc' = "detach_loop"
            /\ it' = 1
            /\ UNCHANGED terminated
    /\ UNCHANGED <<g_LdrModuleList, g_ArInitialImage, mapped, heap, nextAlloc,
                   historyVars, gateVars, msgCount>>

\* DllMain, DLL_PROCESS_DETACH.  With lpvReserved set the process is being
\* terminated and DllMain returns at once.  With lpvReserved null the image
\* is being unloaded: by the worker's FreeLibraryAndExitThread, or by the
\* loader after DllMain returned FALSE for the attach; ArProcessDetach runs.
DllMainDetach(lpvReserved) ==
    /\ ~terminated
    /\ IF lpvReserved
       THEN /\ pc \notin {"not_attached", "done", "crashed"}
            /\ terminated' = TRUE
            /\ UNCHANGED <<pc, it>>
       ELSE /\ pc \in {"free_library", "attach_failed"}
            /\ pc' = "detach_loop"
            /\ it' = 1
            /\ UNCHANGED terminated
    /\ UNCHANGED <<g_LdrModuleList, g_ArInitialImage, mapped, heap, nextAlloc,
                   historyVars, gateVars, msgCount>>

\* DetachSkips with the test for the initial image missing.
DetachSkips_Never(entry) == FALSE

\* Skip the initial image.
DetachSkips(entry) == entry.id = g_ArInitialImage

\* Internal::MdpUnmapImage(&entry, false, true): what the unload routine of
\* the entry can yield; a missing export is success without an invocation.
UnloadResults(entry) ==
    {[invoked |-> FALSE, status |-> "AURIE_SUCCESS"],
     [invoked |-> TRUE, status |-> "AURIE_SUCCESS"],
     [invoked |-> TRUE, status |-> "AURIE_MODULE_INITIALIZATION_FAILED"]}

\* Internal::MdpUnmapImage(&entry, false, true): the unload routine is
\* called best-effort, then the image is unmapped and the allocations of the
\* module are released; the record stays in the list.
MdpUnmapImage(i, r) ==
    LET entry == g_LdrModuleList[i] IN
    /\ hookCalls' = [hookCalls EXCEPT !["Unload"][entry.id] =
                        @ + (IF r.invoked THEN 1 ELSE 0)]
    /\ hookFailed' = [hookFailed EXCEPT !["Unload"] =
                        IF r.invoked /\ ~AurieSuccess(r.status)
                        THEN @ \cup {entry.id} ELSE @]
    /\ dispatched' = [dispatched EXCEPT !["Unload"] = @ \cup {entry.id}]
    /\ mapped' = mapped \ {entry.id}
    /\ heap' = heap \ entry.MemoryAllocations
    /\ g_LdrModuleList' = [g_LdrModuleList EXCEPT ![i].MemoryAllocations = {}]

\* DetachAdvance leaving the loop when an unmap reports failure.
DetachAdvance_StopOnFailure(i, status) ==
    IF AurieSuccess(status) THEN i + 1 ELSE Len(g_LdrModuleList) + 1

\* The range-for moves to the next entry; the status MdpUnmapImage returned
\* is not looked at.
DetachAdvance(i, status) == i + 1

\* UnloadStep walking the list from its end: teardown in reverse load order.
UnloadStep_Reverse ==
    /\ pc = "detach_loop"
    /\ ~terminated
    /\ it <= Len(g_LdrModuleList)
    /\ LET i == Len(g_LdrModuleList) + 1 - it IN
       IF DetachSkips(g_LdrModuleList[i])
       THEN /\ it' = it + 1
            /\ UNCHANGED <<g_LdrModuleList, mapped, heap, historyVars>>
       ELSE \E r \in UnloadResults(g_LdrModuleList[i]) :
              /\ MdpUnmapImage(i, r)
              /\ it' = DetachAdvance(it, r.status)
    /\ UNCHANGED <<pc, g_ArInitialImage, nextAlloc, gateVars, msgCount, terminated>>

\* Unload all modules except the initial image: one iteration of the loop.
UnloadStep ==
    /\ pc = "detach_loop"
    /\ ~terminated
    /\ it <= Len(g_LdrModuleList)
    /\ IF DetachSkips(g_LdrModuleList[it])
       THEN /\ it' = it + 1
            /\ UNCHANGED <<g_LdrModuleList, mapped, heap, historyVars>>
       ELSE \E r \in UnloadResults(g_LdrModuleList[it]) :
              /\ MdpUnmapImage(it, r)
              /\ it' = DetachAdvance(it, r.status)
    /\ UNCHANGED <<pc, g_ArInitialImage, nextAlloc, gateVars, msgCount, terminated>>

\* Internal::MmpFreeMemory(g_ArInitialImage, allocation.AllocationBase, false)
\* for every allocation of the image: the blocks that are live afterwards.
MmpFreeMemory(h, image) == h \ image.MemoryAllocations

\* Free persistent memory, then MemoryAllocations.clear().  When
\* g_ArInitialImage is null the loop dereferences a null pointer: the
\* process faults, or the build elided the access and execution goes on.
FreePersistentMemory ==
    /\ pc = "detach_loop"
    /\ ~terminated
    /\ it > Len(g_LdrModuleList)
    /\ IF g_ArInitialImage = NullImage
       THEN /\ \E outcome \in {"access_violation", "elided"} :
                 pc' = IF outcome = "elided" THEN "detach_clear" ELSE "crashed"
            /\ UNCHANGED <<g_LdrModuleList, heap>>
       ELSE LET i == IndexOf(g_LdrModuleList, g_ArInitialImage) IN
            /\ heap' = MmpFreeMemory(heap, g_LdrModuleList[i])
            /\ g_LdrModuleList' =
                  [g_LdrModuleList EXCEPT ![i].MemoryAllocations = {}]
            /\ pc' = "detach_clear"
    /\ UNCHANGED <<g_ArInitialImage, it, mapped, nextAlloc, historyVars,
                   gateVars, msgCount, terminated>>

\* NullAndClear without the clear of the module list.
NullAndClear_KeepList ==
    /\ pc = "detach_clear"
    /\ ~terminated
    /\ g_ArInitialImage' = NullImage
    /\ pc' = "done"
    /\ UNCHANGED <<g_LdrModuleList, it, mapped, heap, nextAlloc, historyVars,
                   gateVars, msgCount, terminated>>

\* Null the initial image, and clear the module list.
NullAndClear ==
    /\ pc = "detach_clear"
    /\ ~terminated
    /\ g_ArInitialImage' = NullImage
    /\ g_LdrModuleList' = <<>>
    /\ pc' = "done"
    /\ UNCHANGED <<it, mapped, heap, nextAlloc, historyVars, gateVars,
                   msgCount, terminated>>

----------------------------------------------------------------------------
Next ==
    \/ DllMainAttach
    \/ QueryProcessPath
    \/ CreateInitialModule
    \/ GetImageFolder
    \/ MapModsFolder
    \/ PreloadStep
    \/ PurgeAfterPreload
    \/ QuerySuspended
    \/ ElpResumeProcess
    \/ QuerySubsystem
    \/ ElWaitForCurrentProcessWindow
    \/ WaitForInputIdle
    \/ HostCreatesWindow
    \/ HostBecomesIdle
    \/ InitStep
    \/ PurgeAfterInit
    \/ WaitForEndKey
    \/ \E lpvReserved \in BOOLEAN : DllMainDetach(lpvReserved)
    \/ UnloadStep
    \/ FreePersistentMemory
    \/ NullAndClear

Spec == Init /\ [][Next]_vars

\* The steps of the thread that runs ArProcessAttach, from its creation to
\* the purge after the init loop.
WorkerStep ==
    \/ DllMainAttach
    \/ QueryProcessPath
    \/ CreateInitialModule
    \/ GetImageFolder
    \/ MapModsFolder
    \/ PreloadStep
    \/ PurgeAfterPreload
    \/ QuerySuspended
    \/ ElpResumeProcess
    \/ QuerySubsystem
    \/ ElWaitForCurrentProcessWindow
    \/ WaitForInputIdle
    \/ InitStep
    \/ PurgeAfterInit

\* An attach in a host that is neither terminated nor asked to unload the
\* framework before the init pass is over.
LiveNext ==
    \/ WorkerStep
    \/ HostCreatesWindow
    \/ HostBecomesIdle

\* The worker thread keeps being scheduled, and a host that runs creates
\* its window and reaches input idle.
LiveSpec ==
    /\ Init
    /\ [][LiveNext]_vars
    /\ WF_vars(WorkerStep)
    /\ WF_vars(HostCreatesWindow)
    /\ WF_vars(HostBecomesIdle)

TypeOK ==
    /\ g_ArInitialImage \in {NullImage, HostImage}
    /\ it \in 0..(NumMods + 2)
    /\ mapped \subseteq Mods
    /\ heap \subseteq Allocs
    /\ nextAlloc \in 1..(MaxAllocs + 1)
    /\ msgCount \in 0..1
    /\ terminated \in BOOLEAN

----------------------------------------------------------------------------
\* Properties.

PreloadPassDone == pc = "preload" /\ it > Len(g_LdrModuleList)
InitPassDone == pc = "init" /\ it > Len(g_LdrModuleList)
UnloadPassDone == pc = "detach_loop" /\ it > Len(g_LdrModuleList)

\* Positions of the worker before the purge after the preload pass returned.
UpToFirstPurge ==
    {"not_attached", "attach_failed", "query_path", "create_module",
     "get_folder", "map_folder", "preload"}

HostRecords == {i \in 1..Len(g_LdrModuleList) : g_LdrModuleList[i].id = HostImage}

\* C1: a module whose Preinitialize hook returned failure never has its
\* Initialize hook invoked, and once the purge after the preload pass has
\* returned it is no longer in the registry.
C1_FailedPreloadPurged ==
    \A m \in hookFailed["Preinitialize"] :
        /\ hookCalls["Initialize"][m] = 0
        /\ m \notin dispatched["Initialize"]
        /\ pc \notin UpToFirstPurge => m \notin IdSet(g_LdrModuleList)

\* A run got past the init pass with a module whose preload failed and
\* another module whose Initialize hook ran.
C1_Witness ==
    /\ pc = "end_key"
    /\ hookFailed["Preinitialize"] # {}
    /\ \E m \in Mods : hookCalls["Initialize"][m] = 1

\* C2: no module's Initialize hook is invoked before the input-idle wait
\* returned and, for a host whose subsystem is windowed, before the window
\* wait returned.
C2_InitAfterReadiness ==
    (\E m \in Mods : hookCalls["Initialize"][m] > 0) =>
        /\ gate.idleWaitReturned
        /\ host.subsystem = IMAGE_SUBSYSTEM_WINDOWS_GUI => gate.windowWaitReturned

\* C3: for a host launched suspended the resume call precedes every
\* readiness wait, and the worker is never in a wait with the host suspended.
C3_ResumeBeforeWait ==
    /\ host.launchedSuspended
         /\ (pc \in {"window_wait", "idle_wait"}
               \/ gate.windowWaitReturned \/ gate.idleWaitReturned)
       => gate.resumeCalls >= 1
    /\ pc \in {"window_wait", "idle_wait"} => ~host.suspended

\* A host launched suspended, windowed, resumed once, worker in the window wait.
C3_Witness ==
    /\ host.launchedSuspended
    /\ pc = "window_wait"
    /\ gate.resumeCalls = 1

\* C4: after ArProcessDetach has run (to its end, or to a fault on a null
\* g_ArInitialImage) the registry is empty, the initial-image reference is
\* null and no record holds an allocation.
C4_DetachLeavesNothing ==
    pc \in {"done", "crashed"} =>
        /\ g_LdrModuleList = <<>>
        /\ g_ArInitialImage = NullImage
        /\ \A i \in 1..Len(g_LdrModuleList) :
              g_LdrModuleList[i].MemoryAllocations = {}

\* A detach completed after mods were loaded, hooks allocated memory and an
\* unload routine ran.
C4_Witness ==
    /\ pc = "done"
    /\ nextAlloc > 1
    /\ \E m \in Mods : hookCalls["Unload"][m] = 1

C6_SetupFailureIsFatal ==
    /\ msgCount <= 1
    /\ msgCount = 1 <=> pc = "returned"
    /\ pc = "returned" =>
          /\ mapped = {}
          /\ IdSet(g_LdrModuleList) \subseteq {HostImage}
          /\ \A st \in Stages :
                /\ dispatched[st] = {}
                /\ \A m \in ModuleIds : hookCalls[st][m] = 0

\* The worker returned after the folder query failed, the initial record
\* being already in the registry.
C6_Witness ==
    /\ pc = "returned"
    /\ msgCount = 1
    /\ g_ArInitialImage = HostImage

\* C7: a failing hook marks only its own record and the pass goes on: every
\* record the iterator has passed was dispatched, so at the end of a pass
\* every record of the registry has had its dispatch.
C7_FailureIsLocal ==
    /\ \A i \in 1..Len(g_LdrModuleList) :
          g_LdrModuleList[i].MarkedForPurge =>
             g_LdrModuleList[i].id \in
                hookFailed["Preinitialize"] \cup hookFailed["Initialize"]
    /\ pc = "preload" =>
          \A i \in 1..Len(g_LdrModuleList) :
             i < it <=> g_LdrModuleList[i].id \in dispatched["Preinitialize"]
    /\ pc = "init" =>
          \A i \in 1..Len(g_LdrModuleList) :
             i < it <=> g_LdrModuleList[i].id \in dispatched["Initialize"]

\* The preload pass ended with a marked record in front of a record whose
\* hook was still invoked.
C7_Witness ==
    /\ PreloadPassDone
    /\ \E i, j \in 1..Len(g_LdrModuleList) :
          /\ i < j
          /\ g_LdrModuleList[i].MarkedForPurge
          /\ hookCalls["Preinitialize"][g_LdrModuleList[j].id] = 1

\* C8: a step of the preload or init loop leaves the sequence of records of
\* the registry and the mapped images as they are, and records leave the
\* registry only in a purge that follows a completed pass or in the final
\* clear of the unload routine.
C8_PassKeepsRegistry ==
    [][/\ (pc \in {"preload", "init"} /\ pc' = pc)
            => /\ ListIds(g_LdrModuleList') = ListIds(g_LdrModuleList)
               /\ mapped' = mapped
               /\ g_ArInitialImage' = g_ArInitialImage
       /\ ~(IdSet(g_LdrModuleList) \subseteq IdSet(g_LdrModuleList'))
            => \/ (PreloadPassDone \/ InitPassDone) /\ pc' # pc
               \/ pc = "detach_clear"]_vars

\* The init pass ended with a marked record still in the registry.
C8_Witness ==
    /\ InitPassDone
    /\ \E i \in 1..Len(g_LdrModuleList) : g_LdrModuleList[i].MarkedForPurge

C10_UnloadGoesOn ==
    /\ (UnloadPassDone \/ pc = "detach_clear") =>
          /\ mapped = {}
          /\ \A i \in 1..Len(g_LdrModuleList) :
                g_LdrModuleList[i].id # HostImage =>
                   /\ g_LdrModuleList[i].id \in dispatched["Unload"]
                   /\ g_LdrModuleList[i].MemoryAllocations = {}
    /\ pc \in {"detach_clear", "done"} => heap = {}
    /\ pc = "done" => mapped = {} /\ g_LdrModuleList = <<>>

\* The unload loop ended with a record whose unload routine failed in front
\* of a record that was unmapped all the same.
C10_Witness ==
    /\ UnloadPassDone
    /\ \E i, j \in 1..Len(g_LdrModuleList) :
          /\ i < j
          /\ g_LdrModuleList[i].id \in hookFailed["Unload"]
          /\ g_LdrModuleList[j].id \in dispatched["Unload"]
          /\ g_LdrModuleList[j].id \notin mapped


\* C11: the unload routine never unmaps the initial image nor calls an
\* unload routine for it; while its loop runs the initial record keeps its
\* allocations, and these are freed, the reference nulled and the registry
\* cleared only when every other record has been unmapped.
C11_InitialImageLast ==
    /\ HostImage \notin dispatched["Unload"]
    /\ hookCalls["Unload"][HostImage] = 0
    /\ (pc = "detach_loop" /\ g_ArInitialImage = HostImage) =>
          /\ Cardinality(HostRecords) = 1
          /\ \A i \in HostRecords : g_LdrModuleList[i].MemoryAllocations \subseteq heap
    /\ pc = "detach_clear" =>
          \A i \in 1..Len(g_LdrModuleList) :
             g_LdrModuleList[i].id # HostImage =>
                /\ g_LdrModuleList[i].id \in dispatched["Unload"]
                /\ g_LdrModuleList[i].id \notin mapped
    /\ (pc \in {"detach_loop", "detach_clear"} /\ dispatched["Initialize"] # {}) =>
          g_ArInitialImage = HostImage /\ g_LdrModuleList # <<>>

\* The unload loop is over, mods were unmapped, and the initial record still
\* holds a persistent allocation that has not been freed.
C11_Witness ==
    /\ UnloadPassDone
    /\ dispatched["Unload"] # {}
    /\ \E i \in HostRecords :
          /\ g_LdrModuleList[i].MemoryAllocations # {}
          /\ g_LdrModuleList[i].MemoryAllocations \subseteq heap


\* C12: the registry is kept in load order (a mod's id is its place in the
\* load order), and in each stage, preload, init and unload, a record is
\* dispatched only after every record loaded before it that the stage
\* dispatches: the order of dispatch is the load order, forward.
C12_LoadOrderKept ==
    /\ [](\A i, j \in 1..Len(g_LdrModuleList) :
             i < j => g_LdrModuleList[i].id < g_LdrModuleList[j].id)
    /\ [][\A st \in Stages :
            \A m \in dispatched'[st] \ dispatched[st] :
               \A n \in dispatched[st] : n < m]_vars

\* Two mods went through preload, init and unload.
C12_Witness ==
    /\ pc = "detach_clear"
    /\ \A st \in Stages : Mods \subseteq dispatched[st]


\* C13: a detach notification with lpvReserved set runs nothing of the
\* unload routine: in the step that delivers it and ever after, no hook is
\* invoked, no image unmapped, no allocation freed, and the registry, the
\* initial-image reference and the position of the worker stay as they are.
C13_TerminationSkipsUnload ==
    [][terminated' =>
          UNCHANGED <<pc, it, g_LdrModuleList, g_ArInitialImage, mapped, heap,
                      nextAlloc, hookCalls, dispatched, hookFailed>>]_vars

\* The process was terminated with mods loaded and initialized, before the
\* worker unloaded anything.
C13_Witness ==
    /\ terminated
    /\ pc = "end_key"
    /\ mapped # {}
    /\ g_ArInitialImage = HostImage
    /\ dispatched["Unload"] = {}


\* Positions of the worker from the creation of the initial record to the
\* end of the purge after the init pass.
WorkerAttaching ==
    {"create_module", "get_folder", "map_folder", "preload", "query_suspended",
     "resume", "query_subsystem", "window_wait", "idle_wait", "init"}

PastGate == {"init", "end_key", "free_library"}

C17_DetachHasInitialImage ==
    pc \in {"detach_loop", "detach_clear"} =>
        /\ g_ArInitialImage = HostImage
        /\ Cardinality(HostRecords) = 1


\* C18: once the purge after the init pass has run, every record of the
\* registry other than the initial image is preloaded, initialized and not
\* marked for purge; and in every state an initialized record is preloaded.
C18_FlagsAfterInit ==
    /\ pc \in {"end_key", "free_library", "detach_loop", "detach_clear"} =>
          \A i \in 1..Len(g_LdrModuleList) :
             g_LdrModuleList[i].id # HostImage =>
                /\ g_LdrModuleList[i].IsPreloaded
                /\ g_LdrModuleList[i].IsInitialized
                /\ ~g_LdrModuleList[i].MarkedForPurge
    /\ \A i \in 1..Len(g_LdrModuleList) :
          g_LdrModuleList[i].IsInitialized => g_LdrModuleList[i].IsPreloaded

\* The worker is about to unload the image with a mod that went through
\* both passes, another one having been purged on the way.
C18_Witness ==
    /\ pc = "free_library"
    /\ hookFailed["Preinitialize"] \cup hookFailed["Initialize"] # {}
    /\ \E i \in 1..Len(g_LdrModuleList) :
          /\ g_LdrModuleList[i].id # HostImage
          /\ g_LdrModuleList[i].IsInitialized


\* C19: the resume call is made when the suspension query failed or
\* reported the host suspended, and is left out only when the query
\* succeeded and reported a running host; so no readiness wait begins with
\* the host suspended, whatever the query gave.
C19_ResumeUnlessKnownRunning ==
    /\ (gate.suspendQuery \in {"failed", "suspended"} /\ pc # "resume") =>
          gate.resumeCalls = 1
    /\ gate.suspendQuery \in {"failed", "suspended"} =>
          pc \notin {"query_subsystem", "window_wait", "idle_wait"}
             \/ gate.resumeCalls = 1
    /\ gate.suspendQuery = "running" =>
          gate.resumeCalls = 0 /\ ~host.launchedSuspended
    /\ gate.suspendQuery = "none" => gate.resumeCalls = 0
    /\ (gate.suspendQuery = "failed"
          /\ pc \in {"query_subsystem", "window_wait", "idle_wait"}) =>
          ~host.suspended

\* The query failed for a host launched suspended, the resume call was
\* made and the worker is in the input-idle wait.
C19_Witness ==
    /\ gate.suspendQuery = "failed"
    /\ host.launchedSuspended
    /\ gate.resumeCalls = 1
    /\ pc = "idle_wait"


\* The record of module id, if the registry still holds it, was passed over
\* by the init loop as already initialized or was given to the dispatch.
InitPassSaw(id) ==
    \/ id \in dispatched["Initialize"]
    \/ \E i \in 1..Len(g_LdrModuleList) :
          /\ g_LdrModuleList[i].id = id
          /\ MdIsImageInitialized(g_LdrModuleList[i])
          /\ (pc = "init" => i < it)

\* C20: once core setup succeeded and the first purge returned, the worker
\* eventually gets past the purge after the init loop, and by then every
\* record that survived the first purge was dispatched for Initialize or
\* skipped as already initialized; the hooks return and the host reaches
\* readiness.
C20_InitPassCompletes ==
    \A id \in ModuleIds :
       (pc = "query_suspended" /\ id \in IdSet(g_LdrModuleList))
          ~> (pc = "end_key" /\ InitPassSaw(id))

\* The purge after the init loop has returned in a windowed host that was
\* launched suspended, with a module's Initialize hook invoked.
C20_Witness ==
    /\ pc = "end_key"
    /\ host.launchedSuspended
    /\ host.subsystem = IMAGE_SUBSYSTEM_WINDOWS_GUI
    /\ gate.idleWaitReturned
    /\ \E m \in Mods : hookCalls["Initialize"][m] > 0

====
